---- MODULE Spec2Model ----
(***************************************************************************)
(* Model of the ingestion pipeline of tfgs-api-gatherer (src/crawl.py):    *)
(* main() purges the store, crawl() loads the six taxonomies, discovers    *)
(* the games, fetches two pages per game through a thread pool, parses     *)
(* them and writes the rows inside one db_session.                         *)
(***************************************************************************)
EXTENDS Integers, Sequences, FiniteSets, TLC

VARIABLES
    pc,          \* position of the coordinating thread in main()/crawl()
    store,       \* committed contents of the database
    session,     \* contents seen inside crawl()'s db_session (uncommitted)
    prior,       \* history: contents of the store when main() started
    rerun,       \* history: this run of main() follows a completed one
    seen,        \* history: what the last call of list_games returned
    origin,      \* content of the origin site: listing table and game pages
    cat_i,       \* index of the next entry of cat_data (crawl.py:558)
    cat_failed,  \* history: taxonomy kinds whose fetch did not return 2xx
    link_failed, \* history: links whose fetch met a non-2xx or network error
    game_links,  \* crawl.py:578
    all_links,   \* crawl.py:590
    sub_i,       \* number of entries of all_links already submitted
    queue,       \* executor work queue: submitted, not yet picked by a worker
    running,     \* work items being executed by a worker thread
    futures,     \* finished futures: task -> outcome
    collected,   \* futures already yielded by as_completed
    result,      \* crawl.py:602, game_id -> (_type -> html)
    result_keys, \* insertion order of result's keys
    parse_i,     \* index of the next key of result to parse
    games,       \* crawl.py:616
    write_i,     \* index of the next entry of games to write
    console,     \* lines printed by console.log
    writes,      \* history: table and row of each row created in this run
    error,       \* exception that left crawl(), or NoError
    faults,      \* number of non-2xx / network faults injected so far
    inflight,    \* number of worker threads executing fetch_page_raw
    pool_total,  \* bulk pool: number of links to fetch
    pool_sub,    \* bulk pool: links submitted so far
    pool_done    \* bulk pool: links whose future is finished

dbVars == <<store, session>>
envVars == <<prior, origin, rerun, seen>>
taxVars == <<cat_i, cat_failed>>
linkVars == <<game_links, all_links>>
execVars == <<sub_i, queue, running, futures, link_failed, inflight>>
collectVars == <<collected, result, result_keys>>
loadVars == <<parse_i, games, write_i>>
poolVars == <<pool_total, pool_sub, pool_done>>

vars == <<pc, console, writes, error, faults, dbVars, envVars, taxVars,
          linkVars, execVars, collectVars, loadVars, poolVars>>

----------------------------------------------------------------------------
(* Bounds *)

MaxGames == 2        \* game identities the origin can list
MaxFaults == 1       \* faults (non-2xx, network error, store down) per run
MaxOddPages == 1     \* listed games whose detail page is not well-formed
MaxPoolGames == 51   \* games of the bulk pool model (2 links per game)
MaxLoadGames == 1    \* games listed in the runs of the loading model

(* ThreadPoolExecutor(max_workers=100), crawl.py:603 *)
max_workers == 100

----------------------------------------------------------------------------
(* Values *)

(* Optional values: None is the empty tuple, Some(v) holds v. *)
None == <<>>
Some(v) == <<v>>
The(o) == o[1]
NoError == "NoError"

Ok(v) == [tag |-> "ok", val |-> v]
Raise(e) == [tag |-> "raise", exc |-> e]

RECURSIVE SeqToSet(_)
SeqToSet(s) == IF s = <<>> THEN {} ELSE {Head(s)} \cup SeqToSet(Tail(s))

(* Text is a sequence of one-character strings. *)
Upper == <<"A", "J", "R", "T", "G">>
LowerOf == <<"a", "j", "r", "t", "g">>

(* str.lower() on one character *)
lower_char(c) ==
    IF \E i \in DOMAIN Upper : Upper[i] = c
    THEN LowerOf[CHOOSE i \in DOMAIN Upper : Upper[i] = c]
    ELSE c

(* text.lower().replace(" ", "_"), crawl.py:383, 391, 404, 406, 532 *)
normalize(s) ==
    [i \in DOMAIN s |-> IF s[i] = " " THEN "_" ELSE lower_char(s[i])]

RECURSIVE lstrip(_, _)
(* str.lstrip(chars): drops leading characters that belong to chars *)
lstrip(s, chars) ==
    IF s # <<>> /\ Head(s) \in chars THEN lstrip(Tail(s), chars) ELSE s

RECURSIVE rstrip(_, _)
rstrip(s, chars) ==
    IF s # <<>> /\ s[Len(s)] \in chars
    THEN rstrip(SubSeq(s, 1, Len(s) - 1), chars) ELSE s

(* str.strip() *)
strip(s) == rstrip(lstrip(s, {" "}), {" "})

Digits == <<"0", "1", "2", "3", "4", "5", "6", "7", "8", "9">>

IsDigit(c) == \E i \in DOMAIN Digits : Digits[i] = c

DigitVal(c) == (CHOOSE i \in DOMAIN Digits : Digits[i] = c) - 1

RECURSIVE DecimalValue(_, _)
DecimalValue(s, acc) ==
    IF s = <<>> THEN acc ELSE DecimalValue(Tail(s), 10 * acc + DigitVal(Head(s)))

(* int(text): ValueError unless the text is a decimal numeral *)
int(s) ==
    IF s # <<>> /\ \A i \in DOMAIN s : IsDigit(s[i])
    THEN Ok(DecimalValue(s, 0))
    ELSE Raise("ValueError")

----------------------------------------------------------------------------
(* HTML documents.  A document is described by what BeautifulSoup finds in *)
(* it: one field per selector the crawler uses.                            *)

EmptyDoc ==
    [browsecontainer |-> <<>>,      \* find_all("div", class_="browsecontainer")
     table |-> None,                \* find("table"): None or its <tr> rows
     title |-> None,                \* find(class_="viewgamecontenttitle")
     author |-> None,               \* find(class_="viewgamecontentauthor")
     info |-> None,                 \* .viewgameinfo boxes of the side container
     downloads |-> None,            \* find(id="downloads"): None or its children
     tabs |-> [i \in 1 .. 5 |-> None],  \* find(id="tabs-<i>")
     play |-> None,                 \* find(id="play"): None or the form action
     reviewcontent |-> <<>>]        \* find_all(class_="reviewcontent")

(* Body of a non-2xx answer: an error page with none of the elements. *)
ErrorBody == EmptyDoc

Link(text, param, value) == [text |-> text, param |-> param, value |-> value]

(* The six listing pages of the origin, ?module=browse&by=<name>. *)
CategoryPage(name) ==
    [EmptyDoc EXCEPT !.browsecontainer =
        CASE name = "engine" -> << Link(<<"R", " ", "G">>, "engine", <<"1">>) >>
          [] name = "rating" -> << Link(<<"T">>, "rating", <<"1">>),
                                   Link(<<"A">>, "rating", <<"2">>) >>
          [] name = "adult" -> << Link(<<"a", "t">>, "adult", <<"1">>) >>
          [] name = "transformation" ->
                 << Link(<<"t", "g">>, "transformation", <<"1">>) >>
          [] name = "multimedia" -> << Link(<<"g", "a">>, "multimedia", <<"1">>) >>
          [] name = "author" -> << Link(<<"A", "j">>, "author", <<"7">>) >> ]

(* Date formats given to arrow.get, crawl.py:413, 418, 504, 506 *)
LongFormat == "|DD MMM YYYY|, HH:mm"
UsFormat == "MM/DD/YYYY"
IsoFormat == "YYYY-MM-DD HH:mm:ss"
UsClockFormat == "MM/DD/YYYY HH:mm:ss"

(* The dates that occur in texts: a date is one element of a text, written *)
(* in one format, and denotes an instant.                                  *)
Dates ==
    {[token |-> "|05 Mar 2021|, 14:30", format |-> LongFormat, instant |-> 3],
     [token |-> "03/07/2021", format |-> UsFormat, instant |-> 5],
     [token |-> "2021-03-09 10:00:00", format |-> IsoFormat, instant |-> 7],
     [token |-> "03/09/2021 10:00:00", format |-> UsClockFormat, instant |-> 7]}

(* arrow.get(text, fmt).datetime: ParserError unless the text matches fmt *)
arrow_get(text, fmt) ==
    LET match == {d \in Dates : text = <<d.token>> /\ d.format = fmt}
    IN  IF match = {} THEN Raise("ParserError")
        ELSE Ok((CHOOSE d \in match : TRUE).instant)

(* A viewgameinfo box: its label, the text of its right-hand side and the  *)
(* links found there.                                                      *)
Info(left, text) == [left |-> left, right |-> [text |-> text, links |-> <<>>]]
InfoLinks(left, links) ==
    [left |-> left, right |-> [text |-> <<>>, links |-> links]]

GoodInfo ==
    << Info("Engine", <<"R", " ", "G">>),
       Info("Rating", <<"T">>),
       Info("Language", <<"g">>),
       Info("Release Date", <<"|05 Mar 2021|, 14:30">>),
       Info("Last Update", <<"03/07/2021">>),
       Info("Version", <<"2">>),
       Info("Development", <<"a">>),
       Info("Likes", <<"4", "2">>),
       Info("Views", <<"9">>),
       InfoLinks("Adult Themes", << Link(<<"a", "t">>, "adult", <<"1">>) >>),
       InfoLinks("Discussion/Help", << Link(<<"g">>, "href", <<"t", "1">>) >>) >>

(* Replaces the text of the info box labelled left. *)
WithInfo(rows, left, text) ==
    [i \in DOMAIN rows |->
        IF rows[i].left = left THEN Info(left, text) ELSE rows[i]]

(* Children of the downloads element: a <center> version header or a <div> *)
(* download entry.                                                         *)
Center(text) == [name |-> "center", text |-> text]
Div(href, dead, note, report) ==
    [name |-> "div", link |-> href, dldeadlink |-> dead, dlnotes |-> note,
     dlreportdeadlink |-> report]

GoodDownloads ==
    << Center(<<"V", "e", "r", "s", "i", "o", "n", ":", " ", "1">>),
       Div(<<"l", "1">>, None, None, <<"r", "1">>),
       Center(<<"V", "e", "r", "s", "i", "o", "n", ":", " ", "2">>),
       Div(<<"l", "2">>, None, Some(<<"g">>), <<"r", "2">>) >>

Tab(title, text) == [title |-> title, text |-> text, html |-> <<"<">> \o text]

GoodPage ==
    [EmptyDoc EXCEPT
        !.title = Some(<<"g", "a">>),
        !.author = Some([links |-> << Link(<<"A", "j">>, "u", <<"7">>) >>,
                         text |-> <<"b", "y", " ", "A", "j">>]),
        !.info = Some(GoodInfo),
        !.downloads = Some(GoodDownloads),
        !.tabs = [i \in 1 .. 5 |->
                     IF i = 1 THEN Some(Tab(Some("Synopsis"), <<"g">>)) ELSE None]]

(* Replaces the info box labelled left. *)
WithBox(rows, box) ==
    [i \in DOMAIN rows |-> IF rows[i].left = box.left THEN box ELSE rows[i]]

(* Detail pages the origin may serve for a game. *)
PageKinds == {"good", "unlinked_known", "unlinked_unknown", "bad_likes",
              "bad_date", "unknown_engine", "unknown_rating",
              "unknown_theme", "orphan_download"}

DetailPage(kind) ==
    CASE kind = "good" -> GoodPage
      [] kind = "unlinked_known" ->
            [GoodPage EXCEPT !.author =
                Some([links |-> <<>>,
                      text |-> <<" ", "b", "y", " ", "A", "j", " ">>])]
      [] kind = "unlinked_unknown" ->
            [GoodPage EXCEPT !.author =
                Some([links |-> <<>>, text |-> <<"b", "y", " ", "J", "a">>])]
      [] kind = "bad_likes" ->
            [GoodPage EXCEPT !.info =
                Some(WithInfo(GoodInfo, "Likes", <<"4", "a">>))]
      [] kind = "bad_date" ->
            [GoodPage EXCEPT !.info =
                Some(WithInfo(GoodInfo, "Release Date", <<"s", "o", "o", "n">>))]
      [] kind = "unknown_engine" ->
            [GoodPage EXCEPT !.info =
                Some(WithInfo(GoodInfo, "Engine", <<"T", "g">>))]
      [] kind = "unknown_rating" ->
            [GoodPage EXCEPT !.info =
                Some(WithInfo(GoodInfo, "Rating", <<"J">>))]
      [] kind = "unknown_theme" ->
            [GoodPage EXCEPT !.info =
                Some(WithBox(GoodInfo,
                    InfoLinks("Adult Themes",
                              << Link(<<"a", "t">>, "adult", <<"1">>),
                                 Link(<<"t", "g">>, "adult", <<"2">>) >>)))]
      [] kind = "orphan_download" ->
            [GoodPage EXCEPT !.downloads =
                Some(<< Div(<<"l", "0">>, None, None, <<"r", "0">>) >>
                     \o GoodDownloads)]

(* The detail page of a game: its title ends with the game's number. *)
DetailPageOf(game_id, kind) ==
    [DetailPage(kind) EXCEPT !.title = Some(The(@) \o << Digits[game_id + 1] >>)]

(* Texts of the reviews page, crawl.py:496-499 *)
ReviewBy == <<"R", "e", "v", "i", "e", "w", " ", "b", "y">>
VersionReviewed == <<"V", "e", "r", "s", "i", "o", "n", " ", "r", "e", "v",
                     "i", "e", "w", "e", "d", ":", " ">>
On == <<" ", "o", "n", " ">>

(* Text of a review block: its lines, each ended by a newline. *)
RECURSIVE Block(_)
Block(lines) ==
    IF lines = <<>> THEN <<>> ELSE Head(lines) \o <<"\n">> \o Block(Tail(lines))

(* The well-formed review block of a game: its body names the game. *)
GoodBlock(game_id) ==
    Block(<< <<>>, ReviewBy \o <<" ", "A", "j">>,
             VersionReviewed \o <<"2">> \o On \o <<"2021-03-09 10:00:00">>,
             <<"g", Digits[game_id + 1]>> >>)

(* Reviews pages the origin may serve for a game: the well-formed block    *)
(* alone, or followed by one more block.                                   *)
ReviewKinds == {"good", "no_marker", "blank", "header_only", "no_version",
                "no_body", "bad_date"}

OddBlock(kind) ==
    CASE kind = "no_marker" ->
            Block(<< <<"A", "j">>,
                     VersionReviewed \o <<"1">> \o On \o <<"2021-03-09 10:00:00">>,
                     <<"t">> >>)
      [] kind = "blank" -> Block(<< <<" ">>, <<>> >>)
      [] kind = "header_only" -> Block(<< ReviewBy \o <<" ", "J">> >>)
      [] kind = "no_version" ->
            Block(<< ReviewBy \o <<" ", "J">>, <<"1">>, <<"t">> >>)
      [] kind = "no_body" ->
            Block(<< ReviewBy \o <<" ", "J">>,
                     VersionReviewed \o <<"1">> \o On \o <<"2021-03-09 10:00:00">> >>)
      [] kind = "bad_date" ->
            Block(<< ReviewBy \o <<" ", "J">>,
                     VersionReviewed \o <<"1">> \o On \o <<"s", "o", "o", "n">>,
                     <<"t">> >>)

(* The reviews page of a game. *)
ReviewsPage(game_id, kind) ==
    [EmptyDoc EXCEPT !.reviewcontent =
        IF kind = "good" THEN << GoodBlock(game_id) >>
        ELSE << GoodBlock(game_id), OddBlock(kind) >>]

GameIds == 1 .. MaxGames

(* Decimal text of a one-digit number, as it appears in a URL. *)
IdText(n) == << Digits[n + 1] >>

(* Rows of the search result table: a header row without <td>, then one    *)
(* row per listed game whose first cell links to ?module=viewgame&id=<n>.  *)
HeaderRow == [cols |-> 0, href |-> None]
GameRow(n) == [cols |-> 3, href |-> Some(IdText(n))]

(* Search results: any subset of the games, the newest (highest id) first. *)
Listings ==
    {s \in UNION {[1 .. n -> GameIds] : n \in 0 .. MaxGames} :
        \A i, j \in DOMAIN s : i < j => s[i] > s[j]}

(* Contents the origin can have: the listed games, the detail page and the *)
(* reviews page of each, of which at most MaxOddPages are not well formed. *)
Origins ==
    {o \in [listing : Listings, pages : [GameIds -> PageKinds],
            reviews : [GameIds -> ReviewKinds]] :
        /\ \A g \in GameIds :
              g \notin SeqToSet(o.listing) =>
                  (o.pages[g] = "good" /\ o.reviews[g] = "good")
        /\ Cardinality({g \in GameIds : o.pages[g] # "good"})
           + Cardinality({g \in GameIds : o.reviews[g] # "good"}) <= MaxOddPages}

SearchPage(listing) ==
    [EmptyDoc EXCEPT !.table =
        Some(<<HeaderRow>> \o [i \in DOMAIN listing |-> GameRow(listing[i])])]

----------------------------------------------------------------------------
(* The store: one set of rows per table (crawl.py:64-155). *)

Tables == {"gameengine", "contentrating", "adulttheme", "transformationtheme",
           "multimediatheme", "gameauthor", "game", "gameversion",
           "gamedownload", "review"}

EmptyStore == [t \in Tables |-> {}]

TaxRow(id, name) == [id |-> id, name |-> name]

(* The long-form sections of a game, crawl.py:212-216 *)
Sections == {"synopsis", "plot", "characters", "walkthrough", "changelog"}

(* A dataset left by an earlier run. *)
PriorStore ==
    [EmptyStore EXCEPT
        !.gameengine = {TaxRow(1, <<"r", "_", "g">>)},
        !.contentrating = {TaxRow(1, <<"t">>)},
        !.gameauthor = {TaxRow(7, <<"a", "j">>)},
        !.game = {[id |-> 9, title |-> <<"j">>, engine |-> Some(1),
                   content_rating |-> Some(1), authors |-> {7},
                   language |-> <<"g">>, release_date |-> Some(1),
                   last_update |-> Some(1), version |-> <<"1">>,
                   development_stage |-> <<"a">>, likes |-> 0,
                   contest |-> <<>>, orig_pc_gender |-> None,
                   adult_themes |-> {}, transformation_themes |-> {},
                   multimedia_themes |-> {}, thread |-> <<>>,
                   play_online |-> <<>>,
                   text |-> [k \in Sections |-> <<>>],
                   html |-> [k \in Sections |-> <<>>]]},
        !.gameversion = {[id |-> 1, version |-> <<"1">>, game |-> 9]},
        !.gamedownload = {[id |-> 1, link |-> <<"l">>, report |-> <<"r">>,
                           note |-> <<>>, delete |-> <<>>, game_version |-> 1]},
        !.review = {[id |-> 1, author |-> <<"j">>, text |-> <<"g">>,
                     date |-> 1, version |-> <<"1">>, game |-> 9]}]

Ids(db, t) == {r.id : r \in db[t]}

(* Entry of the history of rows created in a run. *)
Written(t, row) == [table |-> t, row |-> row]

(* db_cls(id=..., name=...): a second object with the same primary key     *)
(* raises CacheIndexError.                                                 *)
create(db, t, row) ==
    IF row.id \in Ids(db, t)
    THEN Raise("CacheIndexError")
    ELSE Ok([db EXCEPT ![t] = @ \cup {row}])

(* PrimaryKey(int, auto=True) of a row created without an id: the next     *)
(* number of the table.                                                    *)
auto_id(db, t) == Cardinality(db[t]) + 1

(* Entity.get(name=...): None, the row, or MultipleObjectsFoundError *)
get_by_name(db, t, name) ==
    LET found == {r \in db[t] : r.name = name}
    IN  IF found = {} THEN Ok(None)
        ELSE IF Cardinality(found) = 1 THEN Ok(Some(CHOOSE r \in found : TRUE))
        ELSE Raise("MultipleObjectsFoundError")

(* Entity.get(name=..., id=...) *)
get_by_name_id(db, t, name, id) ==
    LET found == {r \in db[t] : r.name = name /\ r.id = id}
    IN  IF found = {} THEN None ELSE Some(CHOOSE r \in found : TRUE)

(* Entity.get(id=...) *)
get_by_id(db, t, id) ==
    LET found == {r \in db[t] : r.id = id}
    IN  IF found = {} THEN None ELSE Some(CHOOSE r \in found : TRUE)

----------------------------------------------------------------------------
(* parse_category, crawl.py:523-535 *)

RECURSIVE parse_category_items(_, _, _)
parse_category_items(items, name, objects) ==
    IF items = <<>> THEN Ok(objects)
    ELSE LET data == Head(items)
             _id == IF data.param = name THEN int(data.value)
                    ELSE Raise("IndexError")
         IN  IF _id.tag = "raise" THEN _id
             ELSE parse_category_items(Tail(items), name,
                      Append(objects, <<_id.val, normalize(data.text)>>))

parse_category(html, name) ==
    parse_category_items(html.browsecontainer, name, <<>>)

----------------------------------------------------------------------------
(* parse_game_page, crawl.py:363-520.  data is the dictionary built by the *)
(* function: a function from the keys set so far to their values.          *)

Put(data, key, value) == (key :> value) @@ data

Has(data, key) == key \in DOMAIN data

(* crawl.py:381-387: one entry per author link whose href holds a number *)
RECURSIVE linked_authors(_, _)
linked_authors(links, authors) ==
    IF links = <<>> THEN authors
    ELSE LET link == Head(links)
             u == IF link.param = "u" THEN int(link.value) ELSE Raise("IndexError")
         IN  linked_authors(Tail(links),
                 IF u.tag = "raise" THEN authors
                 ELSE Put(authors, normalize(link.text), u.val))

(* crawl.py:389-395: the bare author name is looked up in the author table; *)
(* any exception (no such row: None has no id) makes the parser return.    *)
unlinked_author(db, text) ==
    LET author == normalize(strip(lstrip(strip(text), {"b", "y"})))
        row == get_by_name(db, "gameauthor", author)
    IN  IF row.tag = "raise" \/ row.val = None THEN Raise("return")
        ELSE Ok(Put(<<>>, author, The(row.val).id))

(* crawl.py:409-430: both formats are tried, a failure leaves the key unset *)
parse_date(data, key, text) ==
    LET first == arrow_get(text, LongFormat)
        d1 == IF first.tag = "ok" THEN Put(data, key, first.val) ELSE data
        second == arrow_get(text, UsFormat)
    IN  IF second.tag = "ok" THEN Put(d1, key, second.val) ELSE d1

(* data["themes"][kind][link.text] = int(href.split(kind + "=")[1]) for    *)
(* each link, crawl.py:442-456                                             *)
RECURSIVE parse_themes(_, _, _)
parse_themes(data, kind, links) ==
    IF links = <<>> THEN Ok(data)
    ELSE LET link == Head(links)
             id == IF link.param = kind THEN int(link.value)
                   ELSE Raise("IndexError")
             themes == IF Has(data, "themes") THEN data["themes"] ELSE <<>>
             of_kind == IF kind \in DOMAIN themes THEN themes[kind] ELSE <<>>
         IN  IF id.tag = "raise" THEN id
             ELSE parse_themes(
                      Put(data, "themes",
                          Put(themes, kind, Put(of_kind, link.text, id.val))),
                      kind, Tail(links))

(* crawl.py:399-458, one viewgameinfo box *)
parse_info(data, box) ==
    LET left == box.left
        right == box.right
    IN  CASE left = "Engine" ->
                Ok(Put(data, "game_engine", normalize(right.text)))
          [] left = "Rating" ->
                Ok(Put(data, "content_rating", normalize(right.text)))
          [] left = "Language" -> Ok(Put(data, "language", right.text))
          [] left = "Release Date" ->
                Ok(parse_date(data, "release_date", right.text))
          [] left = "Last Update" ->
                Ok(parse_date(data, "last_update", right.text))
          [] left = "Version" -> Ok(Put(data, "version", right.text))
          [] left = "Development" ->
                Ok(Put(data, "development_stage", right.text))
          [] left = "Likes" ->
                LET n == int(right.text)
                IN  IF n.tag = "raise" THEN n ELSE Ok(Put(data, "likes", n.val))
          [] left = "Contest" ->
                Ok(Put(data, "contest",
                       IF right.text = <<"N", "o", "n", "e">> THEN None
                       ELSE Some(right.text)))
          [] left = "Orig PC Gender" ->
                Ok(Put(data, "orig_pc_gender", Some(right.text)))
          [] left = "Adult Themes" -> parse_themes(data, "adult", right.links)
          [] left = "TF Themes" ->
                parse_themes(data, "transformation", right.links)
          [] left = "Multimedia" ->
                parse_themes(data, "multimedia", right.links)
          [] left = "Discussion/Help" ->
                IF right.links = <<>> THEN Raise("AttributeError")
                ELSE Ok(Put(data, "thread", Some(Head(right.links).value)))
          [] OTHER -> Ok(data)

RECURSIVE parse_infos(_, _)
parse_infos(data, boxes) ==
    IF boxes = <<>> THEN Ok(data)
    ELSE LET d == parse_info(data, Head(boxes))
         IN  IF d.tag = "raise" THEN d ELSE parse_infos(d.val, Tail(boxes))

(* config.BASE_URL, crawl.py:50 *)
BASE_URL == <<"https://tfgames.site">>

(* urljoin(config.BASE_URL, href) for a relative href *)
urljoin(base, href) == base \o <<"/">> \o href

(* data["versions"][label].append(link), crawl.py:477: versions is a list  *)
(* of <<label, links>> in the order the labels were first seen.            *)
append_download(versions, label, link) ==
    IF \E i \in DOMAIN versions : versions[i][1] = label
    THEN [i \in DOMAIN versions |->
             IF versions[i][1] = label
             THEN <<label, Append(versions[i][2], link)>>
             ELSE versions[i]]
    ELSE Append(versions, <<label, <<link>>>>)

(* crawl.py:462-477: the children of the downloads element in document     *)
(* order; version is the local variable, unbound until a <center> is seen. *)
RECURSIVE parse_downloads(_, _, _)
parse_downloads(data, containers, version) ==
    IF containers = <<>> THEN Ok(data)
    ELSE LET container == Head(containers)
         IN  IF container.name = "center"
             THEN parse_downloads(data, Tail(containers),
                      Some(strip(lstrip(container.text, SeqToSet(
                          <<"V", "e", "r", "s", "i", "o", "n", ":">>)))))
             ELSE IF container.name = "div"
             THEN IF version = None THEN Raise("UnboundLocalError")
                  ELSE IF The(version) = <<>> /\ ~ Has(data, "version")
                  THEN Raise("TypeError")
                  ELSE
                  LET link == [delete |-> container.dldeadlink,
                               link |-> container.link,
                               note |-> container.dlnotes,
                               report |-> urljoin(BASE_URL,
                                                  container.dlreportdeadlink)]
                      label == IF The(version) # <<>> THEN The(version)
                               ELSE data["version"]
                  IN  parse_downloads(
                          Put(data, "versions",
                              append_download(data["versions"], label, link)),
                          Tail(containers), version)
             ELSE parse_downloads(data, Tail(containers), version)

(* title.lower() of a tab title, crawl.py:484 *)
lower_title(title) ==
    CASE title = "Synopsis" -> "synopsis"
      [] title = "Plot" -> "plot"
      [] title = "Characters" -> "characters"
      [] title = "Walkthrough" -> "walkthrough"
      [] title = "Changelog" -> "changelog"
      [] OTHER -> title

(* crawl.py:479-486: the tabs 1..5 that exist, keyed by their title *)
RECURSIVE parse_tabs(_, _, _)
parse_tabs(data, tabs, i) ==
    IF i > 5 THEN Ok(data)
    ELSE IF tabs[i] = None THEN parse_tabs(data, tabs, i + 1)
    ELSE LET tab == The(tabs[i])
         IN  IF tab.title = None THEN Raise("AttributeError")
             ELSE parse_tabs(Put(data, lower_title(The(tab.title)),
                                 [text |-> tab.text, html |-> tab.html]),
                             tabs, i + 1)

(* text.split("\n") *)
RECURSIVE split_lines(_, _)
split_lines(text, line) ==
    IF text = <<>> THEN <<line>>
    ELSE IF Head(text) = "\n" THEN <<line>> \o split_lines(Tail(text), <<>>)
    ELSE split_lines(Tail(text), Append(line, Head(text)))

(* [line for line in lines if line.strip()] *)
RECURSIVE non_blank(_)
non_blank(lines) ==
    IF lines = <<>> THEN <<>>
    ELSE IF strip(Head(lines)) = <<>> THEN non_blank(Tail(lines))
    ELSE <<Head(lines)>> \o non_blank(Tail(lines))

(* sub in text *)
contains(text, sub) ==
    \E i \in 1 .. Len(text) - Len(sub) + 1 :
        SubSeq(text, i, i + Len(sub) - 1) = sub

(* re.match of the pattern of crawl.py:499, "Version reviewed: " then a    *)
(* non-empty version, " on " and the date: the version group is greedy, so *)
(* the last " on " of the line separates the two groups.                   *)
match_version(line) ==
    LET p == Len(VersionReviewed)
        cuts == {k \in p + 2 .. Len(line) - Len(On) + 1 :
                    SubSeq(line, k, k + Len(On) - 1) = On}
    IN  IF Len(line) < p \/ SubSeq(line, 1, p) # VersionReviewed \/ cuts = {}
        THEN None
        ELSE LET k == CHOOSE c \in cuts : \A d \in cuts : d <= c
             IN  Some(<<SubSeq(line, p + 1, k - 1),
                        SubSeq(line, k + Len(On), Len(line))>>)

(* "\n".join(lines) *)
RECURSIVE join_lines(_)
join_lines(lines) ==
    IF lines = <<>> THEN <<>>
    ELSE IF Len(lines) = 1 THEN Head(lines)
    ELSE Head(lines) \o <<"\n">> \o join_lines(Tail(lines))

PReview(id, author, version, date, text) ==
    [id |-> id, author |-> author, version |-> version, date |-> date,
     text |-> text]

(* crawl.py:494-518: the review blocks, last block first; i counts every   *)
(* block, skipped or not.                                                  *)
RECURSIVE parse_reviews(_, _, _)
parse_reviews(blocks, i, reviews) ==
    IF blocks = <<>> THEN Ok(reviews)
    ELSE
    LET review == blocks[Len(blocks)]
        rest == SubSeq(blocks, 1, Len(blocks) - 1)
        lines == non_blank(split_lines(review, <<>>))
    IN  IF lines = <<>> THEN Raise("IndexError")
        ELSE IF ~ contains(lines[1], ReviewBy)
        THEN parse_reviews(rest, i + 1, reviews)
        ELSE IF Len(lines) < 2 THEN Raise("IndexError")
        ELSE
        LET author == strip(lstrip(lines[1], SeqToSet(ReviewBy)))
            m == match_version(lines[2])
        IN  IF m = None THEN parse_reviews(rest, i + 1, reviews)
            ELSE
            LET iso == arrow_get(The(m)[2], IsoFormat)
                date == IF iso.tag = "ok" THEN iso
                        ELSE arrow_get(The(m)[2], UsClockFormat)
                text == join_lines(SubSeq(lines, 3, Len(lines)))
            IN  IF date.tag = "raise" THEN date
                ELSE IF text = <<>> THEN parse_reviews(rest, i + 1, reviews)
                ELSE parse_reviews(rest, i + 1,
                         Append(reviews,
                                PReview(i, author, The(m)[1], date.val, text)))

(* Fields of PGame without a default, crawl.py:193-204 *)
PGameRequired == {"title", "authors", "game_engine", "content_rating",
                  "language", "release_date", "last_update", "version",
                  "development_stage", "likes"}

(* Optional fields of PGame, crawl.py:205-216 *)
PGameOptional == {"reviews", "contest", "orig_pc_gender", "themes", "thread",
                  "play_online", "versions"} \cup Sections

(* PGame(id=game_id, **data), crawl.py:520: pydantic raises ValidationError *)
(* when a field without a default is missing; keys that are not fields are *)
(* ignored and missing optional fields are None.                           *)
PGame(game_id, data) ==
    IF ~ (PGameRequired \subseteq DOMAIN data)
    THEN Raise("ValidationError")
    ELSE Ok([k \in PGameRequired \cup PGameOptional \cup {"id"} |->
                IF k = "id" THEN game_id
                ELSE IF Has(data, k) THEN data[k] ELSE None])

(* data = defaultdict(dict) with the keys set before the info boxes are    *)
(* read, crawl.py:370-397                                                  *)
initial_data(title, authors) ==
    [authors |-> authors, versions |-> <<>>, play_online |-> None,
     likes |-> 0, reviews |-> <<>>, title |-> strip(title)]

(* crawl.py:488-492: the play link, when the page has one *)
parse_play(data, play) ==
    IF play = None THEN data ELSE Put(data, "play_online", play)

(* crawl.py:376-395: the author links, or the bare author name *)
parse_authors(db, container) ==
    IF container.links # <<>>
    THEN Ok(linked_authors(container.links, <<>>))
    ELSE unlinked_author(db, container.text)

(* crawl.py:520, once the reviews are read: an exception raised by an      *)
(* earlier statement leaves the function at once.                          *)
parse_game_end(game_id, data, reviews) ==
    IF reviews.tag = "raise" THEN reviews
    ELSE PGame(game_id, Put(data, "reviews", reviews.val))

(* crawl.py:488-520, once the tabs are read *)
parse_game_reviews(game_id, html_game, html_reviews, tabs) ==
    IF tabs.tag = "raise" THEN tabs
    ELSE parse_game_end(game_id, parse_play(tabs.val, html_game.play),
                        parse_reviews(html_reviews.reviewcontent, 0, <<>>))

(* crawl.py:479-520, once the downloads are read *)
parse_game_tabs(game_id, html_game, html_reviews, downloads) ==
    IF downloads.tag = "raise" THEN downloads
    ELSE parse_game_reviews(game_id, html_game, html_reviews,
                            parse_tabs(downloads.val, html_game.tabs, 1))

(* crawl.py:460-520, once the info boxes are read *)
parse_game_downloads(game_id, html_game, html_reviews, infos) ==
    IF infos.tag = "raise" THEN infos
    ELSE parse_game_tabs(game_id, html_game, html_reviews,
             IF html_game.downloads = None THEN Raise("TypeError")
             ELSE parse_downloads(infos.val, The(html_game.downloads), None))

(* crawl.py:397-520, once the authors are known *)
parse_game_body(game_id, html_game, html_reviews, authors) ==
    IF html_game.info = None THEN Raise("IndexError")
    ELSE parse_game_downloads(game_id, html_game, html_reviews,
             parse_infos(initial_data(The(html_game.title), authors),
                         The(html_game.info)))

parse_game_page(db, game_id, html_game, html_reviews) ==
    IF html_game.title = None \/ html_game.author = None
    THEN Raise("AttributeError")
    ELSE LET authors == parse_authors(db, The(html_game.author))
         IN  IF authors.tag = "raise" THEN [tag |-> "return"]
             ELSE parse_game_body(game_id, html_game, html_reviews,
                                  authors.val)

----------------------------------------------------------------------------
(* pgame_to_db_game, crawl.py:263-360 *)

(* An attribute that accepts any value, as Optional(...) would. *)
RequiredAnything(value) == TRUE

(* Required(...) attribute of an entity (crawl.py:66-74): None and the     *)
(* empty string are rejected with ValueError when the object is created.   *)
Required(value) == value # <<>>

(* crawl.py:267-270: authors of the game that are not yet in the table *)
RECURSIVE create_authors(_, _, _)
create_authors(db, authors, log) ==
    IF DOMAIN authors = {} THEN Ok([db |-> db, log |-> log])
    ELSE LET k == CHOOSE name \in DOMAIN authors : TRUE
             v == authors[k]
             rest == [n \in DOMAIN authors \ {k} |-> authors[n]]
         IN  IF get_by_name_id(db, "gameauthor", k, v) # None
             THEN create_authors(db, rest, log)
             ELSE LET made == create(db, "gameauthor", TaxRow(v, k))
                  IN  IF made.tag = "raise" THEN made
                      ELSE create_authors(made.val, rest,
                                          Append(log, Written("gameauthor",
                                                              TaxRow(v, k))))

(* [Theme.get(id=v) for v in game.themes[kind].values()] if game.themes    *)
(* else [], crawl.py:286-299: the rows found, None for an id without row.  *)
theme_rows(db, t, themes, kind) ==
    IF themes = None \/ kind \notin DOMAIN themes THEN {}
    ELSE {get_by_id(db, t, themes[kind][name]) : name \in DOMAIN themes[kind]}

(* game.<section>[key] if game.<section> else "", crawl.py:302-311 *)
section_of(game, key) ==
    [k \in Sections |-> IF game[k] = None THEN <<>> ELSE game[k][key]]

(* The row of Game(...), crawl.py:272-312 *)
GameRowOf(game, engine, content_rating, adult, transformation, multimedia) ==
    [id |-> game.id,
     title |-> game.title,
     authors |-> {game.authors[k] : k \in DOMAIN game.authors},
     version |-> IF game.version = <<>> THEN <<"1", ".", "0", ".", "0">>
                 ELSE game.version,
     engine |-> IF engine = None THEN None ELSE Some(The(engine).id),
     content_rating |-> IF content_rating = None THEN None
                        ELSE Some(The(content_rating).id),
     language |-> game.language,
     release_date |-> Some(game.release_date),
     last_update |-> Some(game.last_update),
     development_stage |-> game.development_stage,
     likes |-> game.likes,
     contest |-> IF game.contest = None THEN <<>> ELSE The(game.contest),
     orig_pc_gender |-> game.orig_pc_gender,
     adult_themes |-> {The(r).id : r \in adult},
     transformation_themes |-> {The(r).id : r \in transformation},
     multimedia_themes |-> {The(r).id : r \in multimedia},
     thread |-> IF game.thread = None THEN <<>> ELSE The(game.thread),
     play_online |-> IF game.play_online = None THEN <<>>
                     ELSE The(game.play_online),
     text |-> section_of(game, "text"),
     html |-> section_of(game, "html")]

(* Attributes of Game declared Required, crawl.py:66-74 *)
GameRequired == {"title", "engine", "content_rating", "language",
                 "release_date", "last_update", "version", "development_stage"}

(* A download row that refers to the version after its own. *)
GameDownloadOfNextVersion(download, id, version_id) ==
    [id |-> id,
     delete |-> <<>>,
     link |-> download.link,
     note |-> IF download.note = None THEN <<>> ELSE The(download.note),
     report |-> download.report,
     game_version |-> version_id + 1]

(* The row of GameDownload(...), crawl.py:324-330 *)
GameDownload(download, id, version_id) ==
    [id |-> id,
     delete |-> <<>>,
     link |-> download.link,
     note |-> IF download.note = None THEN <<>> ELSE The(download.note),
     report |-> download.report,
     game_version |-> version_id]

(* crawl.py:321-330: the GameDownload rows of one version *)
RECURSIVE create_downloads(_, _, _, _)
create_downloads(db, downloads, version_id, log) ==
    IF downloads = <<>> THEN Ok([db |-> db, log |-> log])
    ELSE LET download == Head(downloads)
             row == GameDownload(download, auto_id(db, "gamedownload"),
                                 version_id)
         IN  IF download.delete # None THEN Raise("TypeError")
             ELSE IF ~ Required(row.link) \/ ~ Required(row.report)
             THEN Raise("ValueError")
             ELSE create_downloads(
                      [db EXCEPT !.gamedownload = @ \cup {row}],
                      Tail(downloads), version_id,
                      Append(log, Written("gamedownload", row)))

(* crawl.py:316-342: a GameVersion row per label, then its downloads *)
RECURSIVE create_versions(_, _, _, _)
create_versions(db, versions, game_id, log) ==
    IF versions = <<>> THEN Ok([db |-> db, log |-> log])
    ELSE LET row == [id |-> auto_id(db, "gameversion"),
                     version |-> Head(versions)[1],
                     game |-> game_id]
             made == create_downloads(
                         [db EXCEPT !.gameversion = @ \cup {row}],
                         Head(versions)[2], row.id,
                         Append(log, Written("gameversion", row)))
         IN  IF ~ Required(row.version) THEN Raise("ValueError")
             ELSE IF made.tag = "raise" THEN made
             ELSE create_versions(made.val.db, Tail(versions), game_id,
                                  made.val.log)

(* crawl.py:344-358: a Review row per parsed review *)
RECURSIVE create_reviews(_, _, _, _)
create_reviews(db, reviews, game_id, log) ==
    IF reviews = <<>> THEN Ok([db |-> db, log |-> log])
    ELSE LET review == Head(reviews)
             row == [id |-> auto_id(db, "review"),
                     author |-> review.author,
                     text |-> review.text,
                     date |-> review.date,
                     version |-> review.version,
                     game |-> game_id]
         IN  IF ~ Required(row.author) \/ ~ Required(row.text)
                \/ ~ Required(row.version)
             THEN Raise("ValueError")
             ELSE create_reviews([db EXCEPT !.review = @ \cup {row}],
                                 Tail(reviews), game_id,
                                 Append(log, Written("review", row)))

pgame_to_db_game(db, game) ==
    LET made == create_authors(db, game.authors, <<>>)
    IN  IF made.tag = "raise" THEN made
        ELSE
        LET db1 == made.val.db
            engine == get_by_name(db1, "gameengine", game.game_engine)
            content_rating ==
                get_by_name(db1, "contentrating", game.content_rating)
            adult == theme_rows(db1, "adulttheme", game.themes, "adult")
            transformation == theme_rows(db1, "transformationtheme",
                                         game.themes, "transformation")
            multimedia == theme_rows(db1, "multimediatheme", game.themes,
                                     "multimedia")
        IN  IF engine.tag = "raise" THEN engine
            ELSE IF content_rating.tag = "raise" THEN content_rating
            ELSE IF None \in adult \cup transformation \cup multimedia
            THEN Raise("TypeError")
            ELSE
            LET row == GameRowOf(game, engine.val, content_rating.val, adult,
                                 transformation, multimedia)
                db_game == create(db1, "game", row)
                versions == IF db_game.tag = "raise" THEN db_game
                            ELSE create_versions(
                                     db_game.val, game.versions, row.id,
                                     Append(made.val.log, Written("game", row)))
            IN  IF \E a \in GameRequired : ~ Required(row[a])
                THEN Raise("ValueError")
                ELSE IF versions.tag = "raise" THEN versions
                ELSE create_reviews(versions.val.db, game.reviews, row.id,
                                    versions.val.log)

----------------------------------------------------------------------------
(* The run: main() and crawl(), crawl.py:543-635 *)

cat_data == <<"engine", "rating", "adult", "transformation", "multimedia",
              "author">>

TableOf(name) ==
    CASE name = "engine" -> "gameengine"
      [] name = "rating" -> "contentrating"
      [] name = "adult" -> "adulttheme"
      [] name = "transformation" -> "transformationtheme"
      [] name = "multimedia" -> "multimediatheme"
      [] name = "author" -> "gameauthor"

(* What a request can meet: a 2xx answer, a non-2xx answer (requests.get   *)
(* returns it like any other), or a network error (requests.get raises).   *)
Outcomes == IF faults < MaxFaults THEN {"ok", "http_error", "net_error"}
            ELSE {"ok"}

Inject(outcome) == faults' = IF outcome = "ok" THEN faults ELSE faults + 1

(* An exception leaves crawl(): db_session rolls the transaction back. *)
Abort(exc) ==
    /\ pc' = "failed"
    /\ error' = exc
    /\ session' = store

(* A line of console.log: its text and the game identities it names. *)
Line(text) == [text |-> text, games |-> {}]

Init ==
    /\ pc = "main"
    /\ store \in {EmptyStore, PriorStore}
    /\ session = store
    /\ prior = store
    /\ rerun = FALSE
    /\ seen = None
    /\ origin \in Origins
    /\ cat_i = 1
    /\ cat_failed = {}
    /\ link_failed = {}
    /\ game_links = <<>>
    /\ all_links = <<>>
    /\ sub_i = 0
    /\ queue = <<>>
    /\ running = {}
    /\ futures = <<>>
    /\ collected = {}
    /\ result = <<>>
    /\ result_keys = <<>>
    /\ parse_i = 1
    /\ games = <<>>
    /\ write_i = 1
    /\ console = <<>>
    /\ writes = <<>>
    /\ error = NoError
    /\ faults = 0
    /\ inflight = 0
    /\ pool_total = 0
    /\ pool_sub = 0
    /\ pool_done = 0

(* A drop that leaves the review table and its rows in place. *)
drop_all_but_reviews(db) == [EmptyStore EXCEPT !.review = db.review]

(* db.drop_all_tables(with_all_data=True) then db.create_tables(),         *)
(* crawl.py:631-632: every table exists again and is empty, and the keys   *)
(* of its rows start again.                                                *)
drop_all_tables(db) == EmptyStore

(* main(), crawl.py:629-635: the tables are dropped and created again in a *)
(* transaction of their own, then crawl() opens its db_session             *)
(* (crawl.py:543-548).  A store that cannot be reached raises at the drop. *)
Purge ==
    /\ pc = "main"
    /\ \E reachable \in (IF faults < MaxFaults THEN BOOLEAN ELSE {TRUE}) :
        IF reachable
        THEN /\ store' = drop_all_tables(store)
             /\ session' = drop_all_tables(store)
             /\ pc' = "categories"
             /\ console' = console \o <<Line("Purging Database"),
                                        Line("Starting Crawl"),
                                        Line("Fetching Categories")>>
             /\ UNCHANGED <<error, faults>>
        ELSE /\ pc' = "failed"
             /\ error' = "OperationalError"
             /\ faults' = faults + 1
             /\ console' = Append(console, Line("Purging Database"))
             /\ UNCHANGED dbVars
    /\ UNCHANGED <<writes, envVars, taxVars, linkVars, execVars, collectVars,
                   loadVars, poolVars>>

RECURSIVE create_all(_, _, _, _)
(* crawl.py:561-562 *)
create_all(db, t, data, log) ==
    IF data = <<>> THEN Ok([db |-> db, log |-> log])
    ELSE LET row == TaxRow(Head(data)[1], Head(data)[2])
             made == create(db, t, row)
         IN  IF made.tag = "raise" THEN made
             ELSE create_all(made.val, t, Tail(data),
                             Append(log, Written(t, row)))

(* One iteration of the loop over cat_data, crawl.py:558-562 *)
FetchCategory ==
    /\ pc = "categories"
    /\ \E outcome \in Outcomes :
        LET name == cat_data[cat_i]
            html == IF outcome = "ok" THEN CategoryPage(name) ELSE ErrorBody
            data == parse_category(html, name)
            made == IF data.tag = "raise" THEN data
                    ELSE create_all(session, TableOf(name), data.val, writes)
        IN  /\ Inject(outcome)
            /\ IF outcome = "net_error"
               THEN /\ Abort("ConnectionError")
                    /\ UNCHANGED <<taxVars, writes>>
               ELSE IF made.tag = "raise"
               THEN /\ Abort(made.exc)
                    /\ UNCHANGED <<taxVars, writes>>
               ELSE /\ session' = made.val.db
                    /\ writes' = made.val.log
                    /\ cat_i' = cat_i + 1
                    /\ cat_failed' = IF outcome = "ok" THEN cat_failed
                                     ELSE cat_failed \cup {name}
                    /\ pc' = IF cat_i = Len(cat_data) THEN "discover"
                             ELSE "categories"
                    /\ UNCHANGED error
    /\ UNCHANGED <<store, console, envVars, linkVars, execVars, collectVars,
                   loadVars, poolVars>>

(* crawl.py:579-587: rows without <td> are skipped, the first cell's link  *)
(* is the game's URL (kept as the text that follows "id=").                *)
RECURSIVE table_links(_, _)
table_links(rows, links) ==
    IF rows = <<>> THEN Ok(links)
    ELSE LET row == Head(rows)
         IN  IF row.cols = 0 THEN table_links(Tail(rows), links)
             ELSE IF row.href = None THEN Raise("AttributeError")
             ELSE table_links(Tail(rows), Append(links, The(row.href)))

(* sorted(game_links), crawl.py:591: URLs that differ in their id only;    *)
(* for one-digit ids the order of the texts is the order of the numbers.   *)
RECURSIVE sorted(_)
sorted(links) ==
    IF links = <<>> THEN <<>>
    ELSE LET least == CHOOSE i \in DOMAIN links :
                          \A j \in DOMAIN links :
                              \/ DecimalValue(links[i], 0) < DecimalValue(links[j], 0)
                              \/ (DecimalValue(links[i], 0) = DecimalValue(links[j], 0)
                                  /\ i <= j)
             rest == [k \in 1 .. Len(links) - 1 |->
                         IF k < least THEN links[k] ELSE links[k + 1]]
         IN  <<links[least]>> \o sorted(rest)

(* The links of one game, crawl.py:593-600 *)
links_of_game(game_id) == << <<game_id, "game">>, <<game_id, "reviews">> >>

(* crawl.py:590-600: two links per URL, the detail page and the reviews *)
RECURSIVE links_of(_, _)
links_of(urls, links) ==
    IF urls = <<>> THEN Ok(links)
    ELSE LET game_id == int(Head(urls))
         IN  IF game_id.tag = "raise" THEN game_id
             ELSE links_of(Tail(urls), links \o links_of_game(game_id.val))

(* crawl.py:565-602: the search request, the table rows, the list of links *)
Discover ==
    /\ pc = "discover"
    /\ \E outcome \in Outcomes :
        LET html == IF outcome = "ok" THEN SearchPage(origin.listing)
                    ELSE ErrorBody
            found == IF html.table = None THEN Raise("AttributeError")
                     ELSE table_links(The(html.table), <<>>)
            links == IF found.tag = "raise" THEN found
                     ELSE links_of(sorted(found.val), <<>>)
        IN  /\ Inject(outcome)
            /\ IF outcome = "net_error"
               THEN /\ Abort("ConnectionError")
                    /\ UNCHANGED <<linkVars, console>>
               ELSE IF links.tag = "raise"
               THEN /\ Abort(links.exc)
                    /\ UNCHANGED <<linkVars, console>>
               ELSE /\ game_links' = found.val
                    /\ all_links' = links.val
                    /\ console' = Append(console, Line("Fetching game info"))
                    /\ pc' = "fetching"
                    /\ UNCHANGED <<error, session>>
    /\ UNCHANGED <<store, writes, envVars, taxVars, execVars, collectVars,
                   loadVars, poolVars>>

(* executor.submit(fetch_page_raw, ...), crawl.py:604-607: as_completed    *)
(* first drains the generator, so every link is submitted before the first *)
(* result is read.                                                         *)
Submit ==
    /\ pc = "fetching"
    /\ sub_i < Len(all_links)
    /\ sub_i' = sub_i + 1
    /\ queue' = Append(queue, all_links[sub_i + 1])
    /\ UNCHANGED <<pc, console, writes, error, faults, dbVars, envVars,
                   taxVars, linkVars, running, futures, link_failed, inflight,
                   collectVars, loadVars, poolVars>>

(* A pool that starts a thread for every work item. *)
worker_unbounded(busy) == TRUE

(* A worker thread exists for a work item only while fewer than            *)
(* max_workers threads are busy, crawl.py:603.                             *)
worker_available(busy) == busy < max_workers

(* A worker thread takes the next work item and calls fetch_page_raw. *)
StartFetch ==
    /\ queue # <<>>
    /\ worker_available(inflight)
    /\ running' = running \cup {Head(queue)}
    /\ queue' = Tail(queue)
    /\ inflight' = inflight + 1
    /\ UNCHANGED <<pc, console, writes, error, faults, dbVars, envVars,
                   taxVars, linkVars, sub_i, futures, link_failed,
                   collectVars, loadVars, poolVars>>

(* The page the origin serves at a link. *)
PageAt(link) ==
    IF link[2] = "game" THEN DetailPageOf(link[1], origin.pages[link[1]])
    ELSE ReviewsPage(link[1], origin.reviews[link[1]])

(* fetch_page_raw, crawl.py:538-540: requests.get raises on a network      *)
(* error only; the body of any answer is returned with the task's key.     *)
fetch_page_raw(link, outcome) ==
    IF outcome = "net_error" THEN Raise("ConnectionError")
    ELSE Ok(<<link[1], link[2],
              IF outcome = "ok" THEN PageAt(link) ELSE ErrorBody>>)

(* A worker that stores the body it fetched into result itself. *)
worker_stores(res, fetched) ==
    IF fetched.tag = "raise" THEN res
    ELSE IF fetched.val[1] \in DOMAIN res
    THEN [res EXCEPT ![fetched.val[1]] = (fetched.val[2] :> fetched.val[3]) @@ @]
    ELSE (fetched.val[1] :> (fetched.val[2] :> fetched.val[3])) @@ res

(* What the call of fetch_page_raw leaves in result, crawl.py:538-540: the *)
(* function only returns its value, result is not touched by the worker.   *)
worker_returns(res, fetched) == res

(* fetch_page_raw returns or raises in a worker: the future is finished. *)
FinishFetch ==
    /\ \E link \in running : \E outcome \in Outcomes :
        /\ Inject(outcome)
        /\ futures' = (link :> fetch_page_raw(link, outcome)) @@ futures
        /\ result' = worker_returns(result, fetch_page_raw(link, outcome))
        /\ running' = running \ {link}
        /\ link_failed' = IF outcome = "ok" THEN link_failed
                          ELSE link_failed \cup {link}
    /\ inflight' = inflight - 1
    /\ UNCHANGED <<pc, console, writes, error, dbVars, envVars, taxVars,
                   linkVars, sub_i, queue, collected, result_keys, loadVars,
                   poolVars>>

(* The body stored under the other document type of the game. *)
store_result_swapped(res, game_id, _type, html) ==
    LET other == IF _type = "game" THEN "reviews" ELSE "game"
    IN  IF game_id \in DOMAIN res
        THEN [res EXCEPT ![game_id] = (other :> html) @@ @]
        ELSE (game_id :> (other :> html)) @@ res

(* result[game_id][_type] = html, crawl.py:613 *)
store_result(res, game_id, _type, html) ==
    IF game_id \in DOMAIN res
    THEN [res EXCEPT ![game_id] = (_type :> html) @@ @]
    ELSE (game_id :> (_type :> html)) @@ res

(* A loop that stops at the first future yielded. *)
as_completed_any(fs, yielded) == yielded # {}

(* as_completed has yielded every future, crawl.py:610 *)
as_completed_exhausted(fs, yielded) == yielded = fs

(* One iteration of the loop over as_completed, crawl.py:610-613 *)
Collect ==
    /\ pc = "fetching"
    /\ sub_i = Len(all_links)
    /\ \E link \in DOMAIN futures \ collected :
        LET r == futures[link]
        IN  /\ collected' = collected \cup {link}
            /\ IF r.tag = "raise"
               THEN /\ pc' = "shutdown"
                    /\ error' = r.exc
                    /\ UNCHANGED <<result, result_keys>>
               ELSE /\ result' = store_result(result, r.val[1], r.val[2], r.val[3])
                    /\ result_keys' = IF r.val[1] \in DOMAIN result
                                      THEN result_keys
                                      ELSE Append(result_keys, r.val[1])
                    /\ UNCHANGED <<pc, error>>
    /\ UNCHANGED <<console, writes, faults, dbVars, envVars, taxVars, linkVars,
                   execVars, loadVars, poolVars>>

(* future.result() raised: leaving the with block waits for the work items *)
(* still queued or running (shutdown(wait=True)), then the exception       *)
(* leaves crawl() and db_session rolls back.                               *)
Shutdown ==
    /\ pc = "shutdown"
    /\ queue = <<>>
    /\ running = {}
    /\ pc' = "failed"
    /\ session' = store
    /\ UNCHANGED <<store, console, writes, error, faults, envVars, taxVars,
                   linkVars, execVars, collectVars, loadVars, poolVars>>

(* The loop over as_completed ends and the with block is left,             *)
(* crawl.py:610-616.                                                       *)
ExitExecutor ==
    /\ pc = "fetching"
    /\ sub_i = Len(all_links)
    /\ as_completed_exhausted(SeqToSet(all_links), collected)
    /\ pc' = "parsing"
    /\ console' = Append(console, Line("Parsing info"))
    /\ UNCHANGED <<writes, error, faults, dbVars, envVars, taxVars, linkVars,
                   execVars, collectVars, loadVars, poolVars>>

(* One iteration of the loop over result.items(), crawl.py:617-620 *)
ParseGame ==
    /\ pc = "parsing"
    /\ parse_i <= Len(result_keys)
    /\ LET game_id == result_keys[parse_i]
           data == result[game_id]
           game == IF {"game", "reviews"} \subseteq DOMAIN data
                   THEN parse_game_page(session, game_id, data["game"],
                                        data["reviews"])
                   ELSE Raise("KeyError")
       IN  IF game.tag = "raise"
           THEN /\ Abort(game.exc)
                /\ UNCHANGED <<parse_i, games>>
           ELSE /\ games' = IF game.tag = "ok" THEN Append(games, game.val)
                            ELSE games
                /\ parse_i' = parse_i + 1
                /\ UNCHANGED <<pc, error, session>>
    /\ UNCHANGED <<store, console, writes, faults, envVars, taxVars, linkVars,
                   execVars, collectVars, write_i, poolVars>>

(* The parsing loop ends, crawl.py:622 *)
StartWriting ==
    /\ pc = "parsing"
    /\ parse_i > Len(result_keys)
    /\ pc' = "writing"
    /\ console' = Append(console, Line("Writing to database"))
    /\ UNCHANGED <<writes, error, faults, dbVars, envVars, taxVars, linkVars,
                   execVars, collectVars, loadVars, poolVars>>

(* A commit() after the Game row is created. *)
commit_now(committed, uncommitted) == uncommitted

(* crawl.py:314: the commit() after Game(...) is commented out, the rows   *)
(* of a game stay in the open transaction.                                 *)
no_commit(committed, uncommitted) == committed

(* One iteration of the loop over games, crawl.py:623-624 *)
WriteGame ==
    /\ pc = "writing"
    /\ write_i <= Len(games)
    /\ LET made == pgame_to_db_game(session, games[write_i])
       IN  IF made.tag = "raise"
           THEN /\ Abort(made.exc)
                /\ UNCHANGED <<store, write_i, writes>>
           ELSE /\ session' = made.val.db
                /\ store' = no_commit(store, made.val.db)
                /\ writes' = writes \o made.val.log
                /\ write_i' = write_i + 1
                /\ UNCHANGED <<pc, error>>
    /\ UNCHANGED <<console, faults, envVars, taxVars, linkVars,
                   execVars, collectVars, parse_i, games, poolVars>>

(* crawl() returns, crawl.py:626: db_session commits the transaction, or   *)
(* rolls it back when the store cannot be reached.                         *)
Finish ==
    /\ pc = "writing"
    /\ write_i > Len(games)
    /\ console' = Append(console, Line("Done"))
    /\ \E reachable \in (IF faults < MaxFaults THEN BOOLEAN ELSE {TRUE}) :
        IF reachable
        THEN /\ store' = session
             /\ pc' = "done"
             /\ UNCHANGED <<session, error, faults>>
        ELSE /\ pc' = "failed"
             /\ error' = "OperationalError"
             /\ faults' = faults + 1
             /\ session' = store
             /\ UNCHANGED store
    /\ UNCHANGED <<writes, envVars, taxVars, linkVars, execVars, collectVars,
                   loadVars, poolVars>>

Next ==
    \/ Purge
    \/ FetchCategory
    \/ Discover
    \/ Submit
    \/ StartFetch
    \/ FinishFetch
    \/ Collect
    \/ Shutdown
    \/ ExitExecutor
    \/ ParseGame
    \/ StartWriting
    \/ WriteGame
    \/ Finish

Spec == Init /\ [][Next]_vars

----------------------------------------------------------------------------
(* The same program on narrower sets of inputs. *)

(* Every detail page of the origin is the well-formed page. *)
WellFormed ==
    \A g \in GameIds : origin.pages[g] = "good" /\ origin.reviews[g] = "good"

(* Runs over well-formed pages: what varies is the listing, the faults and *)
(* the scheduling of the fetch tasks.                                      *)
FetchInit == Init /\ WellFormed

SpecFetch == FetchInit /\ [][Next]_vars

(* The origin lists its first games, the newest first. *)
Newest ==
    \A i \in DOMAIN origin.listing :
        origin.listing[i] = Len(origin.listing) - i + 1

(* Detail pages whose record reaches pgame_to_db_game. *)
LoaderKinds == {"good", "unlinked_known", "unknown_engine", "unknown_rating",
                "unknown_theme"}

(* Runs over at most MaxLoadGames listed games whose pages are parsed into *)
(* a record: what varies is what the loader is given.                      *)
LoadInit ==
    /\ Init
    /\ Newest
    /\ Len(origin.listing) <= MaxLoadGames
    /\ \A g \in GameIds :
          origin.pages[g] \in LoaderKinds /\ origin.reviews[g] = "good"

SpecLoad == LoadInit /\ [][Next]_vars

----------------------------------------------------------------------------
(* The pipeline run a second time, crawl.py:641-642: main() is started     *)
(* again after a run that reached the end of crawl(), against the same     *)
(* origin.  Every variable of the process starts afresh; the store is what *)
(* the first run committed.                                                *)
RunAgain ==
    /\ pc = "done"
    /\ ~ rerun
    /\ rerun' = TRUE
    /\ prior' = store
    /\ pc' = "main"
    /\ cat_i' = 1
    /\ cat_failed' = {}
    /\ link_failed' = {}
    /\ game_links' = <<>>
    /\ all_links' = <<>>
    /\ sub_i' = 0
    /\ queue' = <<>>
    /\ running' = {}
    /\ futures' = <<>>
    /\ collected' = {}
    /\ result' = <<>>
    /\ result_keys' = <<>>
    /\ parse_i' = 1
    /\ games' = <<>>
    /\ write_i' = 1
    /\ console' = <<>>
    /\ writes' = <<>>
    /\ error' = NoError
    /\ UNCHANGED <<dbVars, origin, seen, faults, inflight, poolVars>>

NextTwice == Next \/ RunAgain

(* Two runs over well-formed pages of at most MaxLoadGames listed games. *)
TwiceInit == Init /\ WellFormed /\ Newest /\ Len(origin.listing) <= MaxLoadGames

SpecTwice == TwiceInit /\ [][NextTwice]_vars

----------------------------------------------------------------------------
(* The read API, app/main.py, served by another process on the same store. *)

(* CustomPagination, app/main.py:388-392 *)
default_offset == 0
default_limit == 10

(* db_game_to_pgame, app/main.py:331-372, as far as the listing is         *)
(* compared: the identity and the title of the game.                       *)
db_game_to_pgame(game) == [id |-> game.id, title |-> game.title]

(* Game.select()[offset : offset + limit], app/main.py:437: the rows in    *)
(* the order of their keys.                                                *)
select_slice(rows, offset, limit) ==
    {r \in rows :
        LET rank == Cardinality({q \in rows : q.id < r.id})
        IN  offset <= rank /\ rank < offset + limit}

(* The response of GET /games/list, app/main.py:429-439 and 395-425, read  *)
(* from the committed rows.                                                *)
paginate(db, offset, limit) ==
    LET data == {db_game_to_pgame(game) :
                    game \in select_slice(db.game, offset, limit)}
    IN  [count |-> Cardinality(data), result |-> data]

(* A request to /games/list with the default pagination, at any moment. *)
list_games ==
    /\ seen' = Some(paginate(store, default_offset, default_limit))
    /\ UNCHANGED <<pc, console, writes, error, faults, dbVars, prior, origin,
                   rerun, taxVars, linkVars, execVars, collectVars, loadVars,
                   poolVars>>

NextRead == Next \/ list_games

(* Runs of SpecLoad with a reader. *)
SpecRead == LoadInit /\ [][NextRead]_vars

----------------------------------------------------------------------------
(* The executor alone, with the links counted instead of named: pool_total *)
(* links are submitted one by one, a free worker takes the next queued     *)
(* link, a busy worker finishes its link.                                  *)

pool_queued == pool_sub - inflight - pool_done

PoolInit ==
    /\ pc = "fetching"
    /\ store = EmptyStore
    /\ session = EmptyStore
    /\ prior = EmptyStore
    /\ rerun = FALSE
    /\ seen = None
    /\ origin = [listing |-> <<>>, pages |-> [g \in GameIds |-> "good"],
                 reviews |-> [g \in GameIds |-> "good"]]
    /\ cat_i = Len(cat_data) + 1
    /\ cat_failed = {}
    /\ link_failed = {}
    /\ game_links = <<>>
    /\ all_links = <<>>
    /\ sub_i = 0
    /\ queue = <<>>
    /\ running = {}
    /\ futures = <<>>
    /\ collected = {}
    /\ result = <<>>
    /\ result_keys = <<>>
    /\ parse_i = 1
    /\ games = <<>>
    /\ write_i = 1
    /\ console = <<>>
    /\ writes = <<>>
    /\ error = NoError
    /\ faults = 0
    /\ inflight = 0
    /\ pool_total \in {Len(links_of_game(1)) * n : n \in {1, MaxPoolGames}}
    /\ pool_sub = 0
    /\ pool_done = 0

poolFrozen == <<pc, console, writes, error, faults, dbVars, envVars, taxVars,
                linkVars, sub_i, queue, running, futures, link_failed,
                collectVars, loadVars, pool_total>>

(* executor.submit, crawl.py:605 *)
PoolSubmit ==
    /\ pool_sub < pool_total
    /\ pool_sub' = pool_sub + 1
    /\ UNCHANGED <<inflight, pool_done, poolFrozen>>

(* A worker thread takes the next work item, crawl.py:603 *)
PoolStart ==
    /\ pool_queued > 0
    /\ worker_available(inflight)
    /\ inflight' = inflight + 1
    /\ UNCHANGED <<pool_sub, pool_done, poolFrozen>>

(* fetch_page_raw returns or raises, crawl.py:538-540 *)
PoolFinish ==
    /\ inflight > 0
    /\ inflight' = inflight - 1
    /\ pool_done' = pool_done + 1
    /\ UNCHANGED <<pool_sub, poolFrozen>>

PoolNext == PoolSubmit \/ PoolStart \/ PoolFinish

SpecPool == PoolInit /\ [][PoolNext]_vars

----------------------------------------------------------------------------
(* Vocabulary of the properties *)

Terminated == pc \in {"done", "failed"}

(* main() has dropped and created the tables. *)
Purged == \E i \in DOMAIN console : console[i].text = "Starting Crawl"

(* Game identities the origin lists. *)
Listed == SeqToSet(origin.listing)

(* The discovery step has run and returned its list of games. *)
Discovered == pc \in {"fetching", "shutdown", "parsing", "writing", "done"}

(* Games one of whose two fetches failed. *)
FailedGames == {link[1] : link \in link_failed}

(* Listed games whose two documents were fetched and are well formed. *)
SoundGames == {g \in Listed \ FailedGames : origin.pages[g] = "good"}

Loaded(db) == Ids(db, "game")

(* The run's report names game g as skipped for the given reason. *)
ReportedSkipped(g, reason) ==
    \E i \in DOMAIN console : g \in console[i].games /\ console[i].text = reason

(* Links submitted to the executor whose future is not finished. *)
PendingLinks == SeqToSet(queue) \cup running

----------------------------------------------------------------------------
(* Properties *)

(* C1: when a run ends on a run-level error (taxonomy fetch failure,       *)
(* discovery failure, store unreachable), the store holds what it held     *)
(* before the run started.                                                 *)
C1_FatalErrorKeepsPriorStore ==
    pc = "failed" => store = prior

(* C2: when the fetch of one page fails, the other fetch tasks still       *)
(* finish, the game of the failed page gets no record, and every game      *)
(* whose two documents were fetched is parsed and loaded.                  *)
C2_FetchFailureIsPerTask ==
    (Terminated /\ link_failed # {}) =>
        /\ DOMAIN futures = SeqToSet(all_links)
        /\ Loaded(store) \cap FailedGames = {}
        /\ SoundGames \subseteq Loaded(store)

(* C3: when parsing, resolving or loading one game fails (non-numeric      *)
(* Likes, engine or content rating that does not resolve), the other games *)
(* are still parsed and loaded and the run reaches Done.                   *)
C3_GameFailureIsPerGame ==
    (/\ Terminated
     /\ faults = 0
     /\ \E g \in Listed :
            origin.pages[g] \in {"bad_likes", "unknown_engine", "unknown_rating"})
    => (pc = "done" /\ SoundGames \subseteq Loaded(store))

(* Position of the row's creation in the history of the run, 0 if none. *)
WrittenAt(t, row) ==
    IF \E i \in DOMAIN writes : writes[i] = Written(t, row)
    THEN CHOOSE i \in DOMAIN writes : writes[i] = Written(t, row)
    ELSE 0

(* The reference ref of a Game row created at position at resolves to a    *)
(* row of table t, named name, created earlier in the run.                 *)
ResolvedEarlier(db, t, ref, name, at) ==
    /\ ref # None
    /\ \E j \in 1 .. at - 1 :
        /\ writes[j].table = t
        /\ writes[j].row.id = The(ref)
        /\ writes[j].row.name = name
        /\ (db.game # {} => writes[j].row \in db[t])

(* The intermediate record of the game with this identity. *)
RecordOf(g) == games[CHOOSE k \in DOMAIN games : games[k].id = g]

(* C4: in the committed store and in the session alike, every Game row     *)
(* was created in this run after the engine row and the content-rating row *)
(* it references, and these rows carry the names the game's page gives; no *)
(* Game row is ever created with an unresolved engine or content rating.   *)
C4_GameReferencesResolve ==
    Purged =>
        /\ \A db \in {store, session} : \A row \in db.game :
               WrittenAt("game", row) > 0
        /\ \A i \in DOMAIN writes : writes[i].table = "game" =>
               LET row == writes[i].row
                   game == RecordOf(row.id)
               IN  \A db \in {store, session} :
                   /\ ResolvedEarlier(db, "gameengine", row.engine,
                                      game.game_engine, i)
                   /\ ResolvedEarlier(db, "contentrating", row.content_rating,
                                      game.content_rating, i)

(* C4 witness: a run has committed a Game row. *)
C4_Witness ==
    /\ pc = "done"
    /\ store.game # {}
    /\ \E i \in DOMAIN writes : writes[i].table = "game"

(* C5: a game whose page shows an unlinked author name unknown to the      *)
(* author taxonomy is not loaded, the report lists it as skipped with the  *)
(* reason "unresolved author", and the other games are loaded.             *)
C5_UnresolvedAuthorIsReported ==
    (pc = "done" /\ faults = 0) =>
        \A g \in Listed : origin.pages[g] = "unlinked_unknown" =>
            /\ g \notin Loaded(store)
            /\ SoundGames \subseteq Loaded(store)
            /\ ReportedSkipped(g, "unresolved author")

(* C6: a game whose Release Date matches neither date format is still      *)
(* created and loaded, with its release date unset.                        *)
C6_BadDateLeavesFieldUnset ==
    (Terminated /\ faults = 0) =>
        \A g \in Listed : origin.pages[g] = "bad_date" =>
            \E row \in store.game : row.id = g /\ row.release_date = None

(* C7: when discovery yields no game identity, no fetch task is submitted, *)
(* no game is parsed, no Game row is written and the run does not reach    *)
(* Done.                                                                   *)
C7_NoGamesNeverDone ==
    (Discovered /\ game_links = <<>>) =>
        /\ sub_i = 0
        /\ games = <<>>
        /\ session.game = {}
        /\ pc # "done"

(* C8: the run is past the taxonomy stage only when all six taxonomy       *)
(* fetches succeeded, and a Game row exists only after all six were loaded.*)
C8_TaxonomiesBeforeDiscovery ==
    /\ (pc \in {"discover"} \cup {"fetching", "shutdown", "parsing", "writing",
                                  "done"})
           => (cat_failed = {} /\ cat_i = Len(cat_data) + 1)
    /\ (Purged /\ session.game # {}) => cat_i = Len(cat_data) + 1

(* C9: the number of requests in flight never exceeds the worker budget. *)
C9_InFlightBounded ==
    inflight <= max_workers

(* C9 witness: every worker is busy while links are still queued. *)
C9_Witness ==
    inflight = max_workers /\ pool_queued > 0

(* C10: the links are exactly the detail page and the reviews page of each *)
(* discovered game; parsing starts only when every submitted task is       *)
(* finished, and no game is parsed while a task is pending.                *)
C10_TwoTasksPerGameAllFinished ==
    /\ Discovered =>
        /\ Len(all_links) = 2 * Len(game_links)
        /\ \A k \in DOMAIN game_links :
            LET g == DecimalValue(game_links[k], 0)
            IN  \A _type \in {"game", "reviews"} :
                    Cardinality({i \in DOMAIN all_links :
                                    all_links[i] = <<g, _type>>}) = 1
        /\ PendingLinks \cup DOMAIN futures =
               {all_links[i] : i \in 1 .. sub_i}
    /\ (pc \in {"parsing", "writing", "done"} \/ parse_i > 1 \/ games # <<>>) =>
        /\ sub_i = Len(all_links)
        /\ PendingLinks = {}
        /\ DOMAIN futures = SeqToSet(all_links)

(* C10 witness: a game has been parsed after the tasks of two games. *)
C10_Witness ==
    /\ pc = "parsing"
    /\ parse_i > 1
    /\ Len(all_links) = 4
    /\ link_failed # {}

(* C11: when the pipeline has run twice against the same origin content,   *)
(* every request answered as the origin stands, each table of the store    *)
(* holds as many rows, under the same primary keys, as after the first     *)
(* run.                                                                    *)
C11_SecondRunSameRows ==
    (rerun /\ pc = "done" /\ faults = 0) =>
        \A t \in Tables :
            /\ Ids(store, t) = Ids(prior, t)
            /\ Cardinality(store[t]) = Cardinality(prior[t])

(* C11 witness: a second run has committed games, versions and reviews. *)
C11_Witness ==
    /\ rerun
    /\ pc = "done"
    /\ faults = 0
    /\ store.game # {}
    /\ store.gameversion # {}
    /\ store.review # {}

(* C12: the record parse_game_page makes from the two documents of a game  *)
(* is the same whatever the store holds: here, with the author table as it *)
(* stands and with an author table without rows.                           *)
C12_ParsingIsPure ==
    pc = "parsing" =>
        \A game_id \in DOMAIN result :
            {"game", "reviews"} \subseteq DOMAIN result[game_id] =>
                parse_game_page(session, game_id, result[game_id]["game"],
                                result[game_id]["reviews"])
                = parse_game_page([session EXCEPT !.gameauthor = {}], game_id,
                                  result[game_id]["game"],
                                  result[game_id]["reviews"])

(* C13: in every state of a run, ended or not, the committed store is the  *)
(* dataset the run found, an empty dataset, or the whole dataset the run   *)
(* built: every row the run created, committed at the end of crawl().      *)
C13_StoreIsOneGeneration ==
    \/ store = prior
    \/ store = EmptyStore
    \/ /\ pc = "done"
       /\ write_i > Len(games)
       /\ store = session
       /\ \A i \in DOMAIN writes : writes[i].row \in store[writes[i].table]

(* C13 witness: a run over an earlier dataset has failed after it had      *)
(* created rows.                                                           *)
C13_Witness ==
    /\ pc = "failed"
    /\ prior = PriorStore
    /\ writes # <<>>
    /\ games # <<>>

(* C14: whatever a request to the read API returned during or after a run  *)
(* is the listing of the dataset the run found or, once the run has        *)
(* committed, of the dataset it built.                                     *)
C14_ReaderSeesWholeDataset ==
    seen # None =>
        \/ The(seen) = paginate(prior, default_offset, default_limit)
        \/ /\ pc = "done"
           /\ The(seen) = paginate(store, default_offset, default_limit)

(* The review the parser makes of the well-formed block of game g. *)
FromGoodBlock(review, g) ==
    /\ review.author = <<"A", "j">>
    /\ review.version = <<"2">>
    /\ review.text = <<"g", Digits[g + 1]>>

(* C15: when every request is answered and the detail pages are well       *)
(* formed, each listed game is parsed whatever blocks its reviews page     *)
(* holds (a block without the marker line, without lines, without the      *)
(* version line or without a body), and its record holds no review other   *)
(* than that of the well-formed block.                                     *)
C15_ReviewBlocksFiltered ==
    (/\ Terminated
     /\ faults = 0
     /\ \A g \in Listed :
            origin.pages[g] = "good" /\ origin.reviews[g] # "bad_date")
    => \A g \in Listed :
           \E k \in DOMAIN games :
               /\ games[k].id = g
               /\ \A i \in DOMAIN games[k].reviews :
                      FromGoodBlock(games[k].reviews[i], g)

(* The body the origin returned for a link in this run. *)
Served(link) == IF link \in link_failed THEN ErrorBody ELSE PageAt(link)

(* C16: whatever the order in which the fetches complete, the map of       *)
(* fetched documents holds under each game and document type the body      *)
(* returned for that game's link of that type; and when every request is   *)
(* answered, the games loaded are the listed games, each with the title of *)
(* its own page.                                                           *)
C16_ResultsKeyedByTask ==
    /\ \A g \in DOMAIN result : \A t \in DOMAIN result[g] :
           /\ <<g, t>> \in collected
           /\ result[g][t] = Served(<<g, t>>)
    /\ (pc = "done" /\ faults = 0) =>
           /\ Loaded(store) = Listed
           /\ \A row \in store.game :
                  Some(row.title) = PageAt(<<row.id, "game">>).title

(* C16 witness: the documents of two games were collected in an order that *)
(* is not the order of submission, and the run has committed.              *)
C16_Witness ==
    /\ pc = "done"
    /\ faults = 0
    /\ Len(result_keys) > 1
    /\ result_keys[1] > result_keys[Len(result_keys)]

(* C17: a step of a worker thread (a fetch is started or finished) changes *)
(* neither the map of fetched documents nor the records, the session or    *)
(* the store; every other step handles at most one document or one game;   *)
(* and no game is parsed or written while a fetch is queued or running.    *)
C17_OnlyFetchesInWorkers ==
    /\ [](pc \in {"parsing", "writing"} => (running = {} /\ queue = <<>>))
    /\ [][/\ running' # running =>
                /\ result' = result
                /\ result_keys' = result_keys
                /\ games' = games
                /\ writes' = writes
                /\ session' = session
                /\ store' = store
           /\ Len(games') <= Len(games) + 1
           /\ write_i' <= write_i + 1
           /\ Cardinality(collected') <= Cardinality(collected) + 1]_vars

(* C17 witness: a fetch is running while the coordinator has already       *)
(* stored a fetched document.                                              *)
C17_Witness ==
    /\ pc = "fetching"
    /\ running # {}
    /\ DOMAIN result # {}

(* Each download of db refers to exactly one version of db, whose game is  *)
(* in db; each version and each review of db refers to a game of db.       *)
References(db) ==
    /\ \A d \in db.gamedownload :
           /\ Cardinality({v \in db.gameversion : v.id = d.game_version}) = 1
           /\ \A v \in db.gameversion :
                  v.id = d.game_version => v.game \in Ids(db, "game")
    /\ \A v \in db.gameversion : v.game \in Ids(db, "game")
    /\ \A r \in db.review : r.game \in Ids(db, "game")

(* Positions of the history before i that hold a row of table t. *)
Earlier(i, t) == {j \in 1..(i - 1) : writes[j].table = t}

(* The last element of a non-empty set of positions. *)
Latest(positions) == CHOOSE j \in positions : \A k \in positions : k <= j

(* C18: in the committed store and in the session every download refers to *)
(* exactly one existing version of an existing game and every version and  *)
(* review to an existing game; in the history of created rows a version    *)
(* and a review come after the row of their game, and a download comes     *)
(* after the row of its version with no other version in between.          *)
C18_RowsAfterTheirOwner ==
    /\ References(store)
    /\ References(session)
    /\ \A i \in DOMAIN writes :
           /\ writes[i].table \in {"gameversion", "review"} =>
                  \E j \in Earlier(i, "game") :
                      writes[j].row.id = writes[i].row.game
           /\ writes[i].table = "gamedownload" =>
                  /\ Earlier(i, "gameversion") # {}
                  /\ writes[Latest(Earlier(i, "gameversion"))].row.id =
                         writes[i].row.game_version
                  /\ \E j \in Earlier(Latest(Earlier(i, "gameversion")),
                                        "game") :
                         writes[j].row.id =
                             writes[Latest(Earlier(i, "gameversion"))].row.game

(* C18 witness: a run has committed two games with their versions,        *)
(* downloads and reviews.                                                  *)
C18_Witness ==
    /\ pc = "done"
    /\ Cardinality(store.game) > 1
    /\ Cardinality(store.gameversion) > 1
    /\ store.gamedownload # {}
    /\ store.review # {}
    /\ \E i \in DOMAIN writes : writes[i].table = "gamedownload"

(* Positions of the version headers before child i of the downloads. *)
HeadersBefore(containers, i) ==
    {j \in 1..(i - 1) : containers[j].name = "center"}

(* The label child i of the downloads belongs under: that of the header    *)
(* seen last, read as crawl.py:464 reads it, or the version of the game.   *)
LabelOf(containers, i, top) ==
    IF HeadersBefore(containers, i) = {} THEN top
    ELSE strip(lstrip(containers[Latest(HeadersBefore(containers, i))].text,
                      SeqToSet(<<"V", "e", "r", "s", "i", "o", "n", ":">>)))

(* C19: when every request is answered and the pages are well formed but   *)
(* for a download entry that may stand before the first version header,    *)
(* each listed game is parsed and its record holds every download entry    *)
(* of its page under the label of the header seen last before the entry,   *)
(* or under the version of the game when no header precedes the entry.     *)
C19_DownloadsUnderLatestHeader ==
    (/\ Terminated
     /\ faults = 0
     /\ \A g \in Listed :
            /\ origin.pages[g] \in {"good", "orphan_download"}
            /\ origin.reviews[g] = "good")
    => \A g \in Listed :
           \E k \in DOMAIN games :
               /\ games[k].id = g
               /\ \A i \in DOMAIN The(PageAt(<<g, "game">>).downloads) :
                      LET containers == The(PageAt(<<g, "game">>).downloads)
                      IN  containers[i].name = "div" =>
                              \E v \in DOMAIN games[k].versions :
                                  /\ games[k].versions[v][1] =
                                         LabelOf(containers, i,
                                                 games[k].version)
                                  /\ \E d \in DOMAIN games[k].versions[v][2] :
                                         games[k].versions[v][2][d].link =
                                             containers[i].link

(* The theme ids of one kind in a parsed record, crawl.py:442-456. *)
ThemeIds(game, kind) ==
    IF game.themes = None \/ kind \notin DOMAIN game.themes THEN {}
    ELSE {game.themes[kind][name] : name \in DOMAIN game.themes[kind]}

(* C20: when every request is answered and the pages are well formed but   *)
(* for a theme link whose id has no row in the taxonomy, the run ends with *)
(* a Game row for each listed game, and the themes of that row are the     *)
(* theme ids of its page that have a taxonomy row, and no others.          *)
C20_UnresolvedThemeDropped ==
    (/\ Terminated
     /\ faults = 0
     /\ \A g \in Listed :
            /\ origin.pages[g] \in {"good", "unknown_theme"}
            /\ origin.reviews[g] = "good")
    => \A g \in Listed :
           \E k \in DOMAIN games : \E row \in store.game :
               /\ games[k].id = g
               /\ row.id = g
               /\ row.adult_themes =
                      ThemeIds(games[k], "adult") \cap Ids(store, "adulttheme")
               /\ row.transformation_themes =
                      ThemeIds(games[k], "transformation")
                          \cap Ids(store, "transformationtheme")
               /\ row.multimedia_themes =
                      ThemeIds(games[k], "multimedia")
                          \cap Ids(store, "multimediatheme")

====
